---- MODULE Spec2Model ----
(***************************************************************************)
(* A model of packages/cli/src.ts/cli.ts: the argument parser (ArgParser), *)
(* the command line runner (CLI.run, Plugin.prepareOptions), the account   *)
(* resolver (loadAccount), the deferred signer memo (getSigner), the       *)
(* consent gate (isAllowed) and the WrappedSigner operations.              *)
(*                                                                         *)
(* Spec and SpecConcurrent follow the wrapped signers of one invocation:   *)
(* the options phase loads the --account credentials one after another,    *)
(* then the command calls the signers.  SpecParser is an ArgParser on      *)
(* which any calls are made, SpecCli is CLI.run on any command line.  Each *)
(* async method is cut at its awaits: an action is the code between two.   *)
(***************************************************************************)
EXTENDS Integers, Sequences, FiniteSets, TLC

\* Bounds of the model.
MaxAccounts == 1    \* --account options of one invocation
MaxOps == 2         \* WrappedSigner calls in flight at the same time
MaxArgs == 4        \* tokens given to an ArgParser

VARIABLES
    phase,          \* "options" | "run" | "exit": where CLI.run is
    yes,            \* plugin.yes
    load,           \* the activation of loadAccount
    signerFuncs,    \* WeakMap signerFuncs: wrapper -> the branch that made its factory
    signers,        \* WeakMap signers: the wrappers that have an entry
    alwaysAllow,    \* WeakMap alwaysAllow: wrapper -> object (0: no entry)
    objs,           \* the heap of `allowed` objects: object -> the messages set in it
    ops,            \* the WrappedSigner calls in flight, each at its await
    invoked,        \* the wrappers whose factory has been invoked (history)
    escalated       \* the <<wrapper, message>> answered "a" so far (history)

\* The ArgParser in use and the activation of CLI.run with its plugin.
VARIABLES
    args,           \* ArgParser._args
    consumed,       \* ArgParser._consumed
    ret,            \* the last call on the ArgParser and what it returned or threw
    used,           \* the names asked of the ArgParser and the tokens its results used
    cli,            \* the activation of CLI.run
    plugin          \* the fields of the Plugin instance set so far

front == <<args, consumed, ret, used, cli, plugin>>

back == <<phase, yes, load, signerFuncs, signers, alwaysAllow, objs, ops, invoked, escalated>>

vars == <<phase, yes, load, signerFuncs, signers, alwaysAllow, objs, ops, invoked, escalated,
          args, consumed, ret, used, cli, plugin>>

Wrappers == 1..MaxAccounts
OpIds == 1..MaxOps
ObjIds == 1..(MaxAccounts + MaxOps)

-----------------------------------------------------------------------------
(* Credentials.  The structural tests of loadAccount are collaborator       *)
(* functions (ethers.utils.isHexString, isValidMnemonic, fs.readFileSync,   *)
(* getJsonWalletAddress); a credential string is represented by what each   *)
(* test answers on it.  "-" is the one string the code compares literally.  *)

FileStates == {"unreadable", "other", "wallet"}

Dash == [dash |-> TRUE, hex |-> FALSE, mnemonic |-> FALSE, file |-> "unreadable"]

Credentials ==
    {Dash} \cup
    [dash : {FALSE}, hex : BOOLEAN, mnemonic : BOOLEAN, file : FileStates]

\* The messages of the three consent prompts.
MessageOf(kind) ==
    CASE kind = "signMessage" -> "Sign Message?"
      [] kind = "signTransaction" -> "Sign Transaction?"
      [] kind = "sendTransaction" -> "Send Transaction?"
      [] OTHER -> "none"

GatedKinds == {"signMessage", "signTransaction", "sendTransaction"}
OpKinds == GatedKinds \cup {"unlock"}
Messages == {MessageOf(k) : k \in GatedKinds}

-----------------------------------------------------------------------------
(* ArgParser.  A token is the sequence of its pieces: an option "--name"   *)
(* is <<"--", "name">>, the separator "--" is <<"--">>, any other string s  *)
(* is <<s>>.  No piece but the first begins with "--".                      *)

Separator == <<"--">>

Option(name) == <<"--", name>>

Word(s) == <<s>>

\* What reading past the end of an array gives.
undefined == <<>>

\* arg.substring(0, 2) === "--"
HasOptionPrefix(arg) == Len(arg) > 0 /\ arg[1] = "--"

\* arg.substring(2), for an arg with the prefix "--"
Substring2(arg) == IF Len(arg) > 1 THEN arg[2] ELSE ""

\* names.indexOf(name)
IndexOf(names, name) ==
    IF \E k \in 1..Len(names) : names[k] = name
    THEN (CHOOSE k \in 1..Len(names) :
             names[k] = name /\ \A j \in 1..(k - 1) : names[j] # name) - 1
    ELSE -1

\* this._args[i] and this._consumed[i], i counted from 0 as in the code
ArgAt(a, i) == IF i < Len(a) THEN a[i + 1] ELSE undefined

IsConsumed(c, i) == i < Len(c) /\ c[i + 1]

\* this._consumed[i] = true: an index at the end of the array extends it.
SetConsumedNever(c, i) == c

SetConsumed(c, i) ==
    IF i < Len(c) THEN [c EXCEPT ![i + 1] = TRUE]
    ELSE c \o [k \in 1..(i - Len(c)) |-> FALSE] \o <<TRUE>>

\* new ArgParser(args)
ArgParser(a) == [k \in 1..Len(a) |-> FALSE]

\* _finalizeArgs, its loop from index i on with the list built so far
RECURSIVE FinalizeLoop(_, _, _, _)
FinalizeLoop(a, c, i, out) ==
    IF i >= Len(a) THEN [error |-> "none", value |-> out]
    ELSE IF IsConsumed(c, i) THEN FinalizeLoop(a, c, i + 1, out)
    ELSE IF a[i + 1] = Separator
    THEN [error |-> "none", value |-> out \o SubSeq(a, i + 2, Len(a))]
    ELSE IF HasOptionPrefix(a[i + 1])
    THEN [error |-> "unexpected option", value |-> <<>>]
    ELSE FinalizeLoop(a, c, i + 1, Append(out, a[i + 1]))

\* _finalizeArgs
FinalizeArgsOfAll(a, c) == FinalizeLoop(a, ArgParser(a), 0, <<>>)

FinalizeArgs(a, c) == FinalizeLoop(a, c, 0, <<>>)

\* _checkCommandIndex: the index of the first token not consumed, or -1
CheckCommandIndex(a, c) ==
    IF \E i \in 0..(Len(a) - 1) : ~IsConsumed(c, i)
    THEN CHOOSE i \in 0..(Len(a) - 1) :
             ~IsConsumed(c, i) /\ \A j \in 0..(i - 1) : IsConsumed(c, j)
    ELSE -1

\* consumeFlag, its loop from index i on
RECURSIVE FlagLoop(_, _, _, _, _)
FlagLoop(a, c, name, i, count) ==
    IF i >= Len(a) \/ a[i + 1] = Separator THEN [consumed |-> c, count |-> count]
    ELSE IF a[i + 1] = Option(name)
    THEN FlagLoop(a, SetConsumed(c, i), name, i + 1, count + 1)
    ELSE FlagLoop(a, c, name, i + 1, count)

ConsumeFlag(a, c, name) ==
    LET scan == FlagLoop(a, c, name, 0, 0)
    IN  [consumed |-> scan.consumed,
         error |-> IF scan.count > 1 THEN "expected at most one" ELSE "none",
         value |-> scan.count = 1]

\* consumeMultiOptions, its loop from index i on with the result so far
RECURSIVE MultiLoop(_, _, _, _, _)
MultiLoop(a, c, names, i, result) ==
    IF i >= Len(a) \/ a[i + 1] = Separator
    THEN [consumed |-> c, error |-> "none", value |-> result]
    ELSE IF HasOptionPrefix(a[i + 1]) /\ IndexOf(names, Substring2(a[i + 1])) >= 0
    THEN IF Len(a) = i
         THEN [consumed |-> c, error |-> "missing argument", value |-> <<>>]
         ELSE MultiLoop(a, SetConsumed(SetConsumed(c, i), i + 1), names, i + 2,
                        Append(result, [name |-> Substring2(a[i + 1]),
                                        value |-> ArgAt(a, i + 1)]))
    ELSE MultiLoop(a, c, names, i + 1, result)

ConsumeMultiOptions(a, c, names) == MultiLoop(a, c, names, 0, <<>>)

\* consumeOptions: the values of consumeMultiOptions([ name ])
ConsumeOptions(a, c, name) ==
    LET multi == ConsumeMultiOptions(a, c, <<name>>)
    IN  [multi EXCEPT !.value = [k \in 1..Len(multi.value) |-> multi.value[k].value]]

\* consumeOption: the one value, null if there is none
null == <<"", "null">>

ConsumeOption(a, c, name) ==
    LET options == ConsumeOptions(a, c, name)
    IN  IF options.error # "none" THEN options
        ELSE IF Len(options.value) > 1
        THEN [options EXCEPT !.error = "expected at most one", !.value = <<>>]
        ELSE [options EXCEPT !.value = IF Len(options.value) > 0 THEN options.value[1]
                                       ELSE null]

-----------------------------------------------------------------------------
(* loadAccount                                                              *)

IdleLoad == [pc |-> "idle", arg |-> Dash, branch |-> "none", fileRead |-> FALSE,
             cause |-> "none", error |-> "none"]

\* The catch clause of loadAccount: what an error thrown inside the try
\* block becomes.  "fallthrough" is the swallowed error: control reaches the
\* usage error after the try statement.
LoadAccountCatch(message) ==
    IF message = "cancelled" THEN "Cancelled."
    ELSE IF message = "wrong password" THEN "Incorrect password."
    ELSE "fallthrough"

UnknownAccount == "unknown account option - [REDACTED]"

\* The message of the UsageError thrown after the try statement: a literal,
\* in which the credential does not occur.
UnknownAccountEchoes(arg) ==
    IF arg.file = "other" THEN "unknown account option - other"
    ELSE "unknown account option - unreadable"

UnknownAccountOption(arg) == UnknownAccount

\* The body of loadAccount after the "-" test: the tests in the order of
\* the code, the first that matches deciding.  The result is the frame when
\* the function returns or throws.
ClassifyMnemonicFirst(arg) ==
    IF arg.mnemonic
    THEN [pc |-> "resolved", arg |-> arg, branch |-> "mnemonic", fileRead |-> FALSE,
          cause |-> "none", error |-> "none"]
    ELSE IF arg.hex
    THEN [pc |-> "resolved", arg |-> arg, branch |-> "key", fileRead |-> FALSE,
          cause |-> "none", error |-> "none"]
    ELSE IF arg.file = "wallet"
    THEN [pc |-> "resolved", arg |-> arg, branch |-> "json", fileRead |-> TRUE,
          cause |-> "none", error |-> "none"]
    ELSE [pc |-> "failed", arg |-> arg, branch |-> "none", fileRead |-> TRUE,
          cause |-> "unknown", error |-> UnknownAccount]

Classify(arg) ==
    IF arg.hex
    THEN [pc |-> "resolved", arg |-> arg, branch |-> "key", fileRead |-> FALSE,
          cause |-> "none", error |-> "none"]
    ELSE IF arg.mnemonic
    THEN [pc |-> "resolved", arg |-> arg, branch |-> "mnemonic", fileRead |-> FALSE,
          cause |-> "none", error |-> "none"]
    ELSE IF arg.file = "wallet"
    THEN [pc |-> "resolved", arg |-> arg, branch |-> "json", fileRead |-> TRUE,
          cause |-> "none", error |-> "none"]
    ELSE LET caught == IF arg.file = "unreadable"
                       THEN LoadAccountCatch("ENOENT")
                       ELSE "fallthrough"
         IN  IF caught # "fallthrough"
             THEN [pc |-> "failed", arg |-> arg, branch |-> "none", fileRead |-> TRUE,
                   cause |-> "unreadable", error |-> caught]
             ELSE [pc |-> "failed", arg |-> arg, branch |-> "none", fileRead |-> TRUE,
                   cause |-> "unknown", error |-> UnknownAccountOption(arg)]

\* loadAccount(arg): "-" asks for the credential with getPassword, anything
\* else is classified at once.
LoadAccountBody(arg) ==
    IF arg.dash
    THEN [pc |-> "prompt", arg |-> arg, branch |-> "none", fileRead |-> FALSE,
          cause |-> "none", error |-> "none"]
    ELSE Classify(arg)

\* prepareOptions reaches an --account option and calls loadAccount.
LoadAccountCall(arg) ==
    /\ phase = "options"
    /\ load.pc = "idle"
    /\ Len(signerFuncs) < MaxAccounts
    /\ load' = LoadAccountBody(arg)
    /\ phase' = IF load'.pc = "failed" THEN "exit" ELSE phase
    /\ UNCHANGED <<front, yes, signerFuncs, signers, alwaysAllow, objs, ops, invoked, escalated>>

\* The getPassword of the "-" entry answers: the text typed, with which
\* loadAccount calls itself; or the prompt is cancelled, and its error leaves
\* loadAccount as it is (the await is outside the try block).
LoadPromptAnswer(content) ==
    /\ phase = "options"
    /\ load.pc = "prompt"
    /\ load' = LoadAccountBody(content)
    /\ phase' = IF load'.pc = "failed" THEN "exit" ELSE phase
    /\ UNCHANGED <<front, yes, signerFuncs, signers, alwaysAllow, objs, ops, invoked, escalated>>

LoadPromptCancel ==
    /\ phase = "options"
    /\ load.pc = "prompt"
    /\ load' = [load EXCEPT !.pc = "failed", !.cause = "passwordCancelled",
                            !.error = "cancelled"]
    /\ phase' = "exit"
    /\ UNCHANGED <<front, yes, signerFuncs, signers, alwaysAllow, objs, ops, invoked, escalated>>

\* The factory loadAccount gives the WrappedSigner: for a raw key and for a
\* mnemonic `() => Promise.resolve(signer)`, for a JSON wallet the function
\* that asks for the password and decrypts.
FactoryOf(branch) == IF branch = "json" THEN "decrypt" ELSE "resolve"

\* loadAccount returned a WrappedSigner: its constructor has stored the
\* factory in signerFuncs, and prepareOptions pushes it on accounts.
AccountsPush ==
    /\ phase = "options"
    /\ load.pc = "resolved"
    /\ signerFuncs' = Append(signerFuncs, load.branch)
    /\ load' = IdleLoad
    /\ UNCHANGED <<front, phase, yes, signers, alwaysAllow, objs, ops, invoked, escalated>>

\* prepareOptions is through: the command runs.
PrepareOptionsDone ==
    /\ phase = "options"
    /\ load.pc = "idle"
    /\ phase' = "run"
    /\ UNCHANGED <<front, yes, load, signerFuncs, signers, alwaysAllow, objs, ops, invoked, escalated>>

-----------------------------------------------------------------------------
(* getSigner, isAllowed and the WrappedSigner methods                       *)

IdleOp == [pc |-> "idle", w |-> 0, kind |-> "none", allowed |-> 0,
           password |-> "none", consent |-> "none", cause |-> "none",
           error |-> "none", factory |-> "no", asked |-> {}, signed |-> FALSE,
           later |-> FALSE]

Active(op) == op.pc \notin {"idle", "done", "failed"}

\* The method throws: its promise is rejected with the error.
Fail(op, cause, error) ==
    [op EXCEPT !.pc = "failed", !.cause = cause, !.error = error,
               !.allowed = 0, !.password = "none"]

\* The heap is kept up to the names of its objects: an object nothing
\* refers to any more is collected, and the live ones are numbered in the
\* order of the references to them (alwaysAllow first, then the calls).
Refs(map, calls) ==
    [k \in 1..(MaxAccounts + MaxOps) |->
        IF k <= MaxAccounts THEN map[k] ELSE calls[k - MaxAccounts].allowed]

First(r, o) == CHOOSE k \in DOMAIN r : r[k] = o /\ \A j \in 1..(k - 1) : r[j] # o

Live(r) == {r[k] : k \in DOMAIN r} \ {0}

Rank(r, o) ==
    IF o = 0 THEN 0
    ELSE Cardinality({p \in Live(r) : First(r, p) <= First(r, o)})

Commit(calls, map, heap) ==
    LET r == Refs(map, calls)
    IN  /\ ops' = [i \in OpIds |-> [calls[i] EXCEPT !.allowed = Rank(r, @)]]
        /\ alwaysAllow' = [w \in Wrappers |-> Rank(r, map[w])]
        /\ objs' = [n \in ObjIds |->
                       IF \E o \in Live(r) : Rank(r, o) = n
                       THEN heap[CHOOSE o \in Live(r) : Rank(r, o) = n]
                       ELSE {}]

\* `{ }` in isAllowed: a new object, none of the live ones.
NewObject ==
    CHOOSE o \in ObjIds :
        /\ \A w \in Wrappers : alwaysAllow[w] # o
        /\ \A i \in OpIds : ops[i].allowed # o

\* getSigner: signers.has(wrapper)
HasSigner(w) == w \in signers

\* isAllowed: wrapper.plugin.yes
AutoConfirmNever == FALSE

AutoConfirm == yes

\* isAllowed: allow === "a"
RecordsYesToo(allow) == allow \in {"a", "y"}

Records(allow) == allow = "a"

\* isAllowed: allow === "n"
DeclinesNever(allow) == FALSE

Declines(allow) == allow = "n"

\* isAllowed returned true: the method calls the signer's signMessage,
\* signTransaction or sendTransaction.
Delegate(op, consent) ==
    [op EXCEPT !.pc = "signing", !.consent = consent, !.signed = TRUE, !.allowed = 0]

\* isAllowed up to its await: --yes, then the remembered answers, then the
\* prompt.  `allowed` is the object of alwaysAllow, or a new empty one.
IsAllowed(op) ==
    IF AutoConfirm
    THEN Delegate(op, "auto")
    ELSE LET allowed == IF alwaysAllow[op.w] # 0 THEN alwaysAllow[op.w] ELSE NewObject
         IN  IF MessageOf(op.kind) \in objs[allowed]
             THEN Delegate(op, "always")
             ELSE [op EXCEPT !.pc = "prompt", !.allowed = allowed,
                             !.asked = @ \cup {"consent"}]

\* The method after `await getSigner(this)`: unlock is through, signMessage
\* prints its summary and asks for consent, the transaction methods first
\* await the network and the transaction's fields.
WithSigner(op) ==
    IF op.kind = "unlock" THEN [op EXCEPT !.pc = "done"]
    ELSE IF op.kind = "signMessage" THEN IsAllowed(op)
    ELSE [op EXCEPT !.pc = "prepare"]

\* A call of signMessage, signTransaction, sendTransaction or unlock: each
\* starts with getSigner, which runs up to its await: a wrapper without a
\* signer has its factory invoked, and the factory of a JSON wallet asks for
\* the password.
Start(i, w, kind) ==
    /\ phase = "run"
    /\ ops[i].pc = "idle"
    /\ \A j \in 1..(i - 1) : ops[j].pc # "idle"
    /\ w \in 1..Len(signerFuncs)
    /\ LET op == [IdleOp EXCEPT !.w = w, !.kind = kind,
                             !.later = <<w, MessageOf(kind)>> \in escalated]
           called == [op EXCEPT !.factory = IF w \in invoked THEN "again" ELSE "first"]
       IN  IF HasSigner(w)
           THEN /\ Commit([ops EXCEPT ![i] = WithSigner(op)], alwaysAllow, objs)
                /\ UNCHANGED invoked
           ELSE /\ invoked' = invoked \cup {w}
                /\ ops' = [ops EXCEPT ![i] =
                      IF FactoryOf(signerFuncs[w]) = "decrypt"
                      THEN [called EXCEPT !.pc = "password", !.asked = {"password"}]
                      ELSE [called EXCEPT !.pc = "factory"]]
                /\ UNCHANGED <<alwaysAllow, objs>>
    /\ UNCHANGED <<front, phase, yes, load, signerFuncs, signers, escalated>>

\* The password prompt of the factory answers.
PasswordAnswer(i, entry) ==
    /\ ops[i].pc = "password"
    /\ ops' = [ops EXCEPT ![i] = [@ EXCEPT !.pc = "decrypt", !.password = entry]]
    /\ UNCHANGED <<front, phase, yes, load, signerFuncs, signers, alwaysAllow, objs, invoked, escalated>>

\* The password prompt is cancelled: getPassword's error leaves the factory,
\* getSigner and the method as it is.
PasswordCancel(i) ==
    /\ ops[i].pc = "password"
    /\ ops' = [ops EXCEPT ![i] = Fail(@, "passwordCancelled", "cancelled")]
    /\ UNCHANGED <<front, phase, yes, load, signerFuncs, signers, alwaysAllow, objs, invoked, escalated>>

\* Wallet.fromEncryptedJson ends: with the wallet, which getSigner stores, or
\* with its error for a password that does not decrypt.
Decrypt(i) ==
    /\ ops[i].pc = "decrypt"
    /\ IF ops[i].password = "right"
       THEN /\ signers' = signers \cup {ops[i].w}
            /\ Commit([ops EXCEPT ![i] = WithSigner([@ EXCEPT !.password = "none"])],
                      alwaysAllow, objs)
       ELSE /\ ops' = [ops EXCEPT ![i] = Fail(@, "wrongPassword", "wrong password")]
            /\ UNCHANGED <<signers, alwaysAllow, objs>>
    /\ UNCHANGED <<front, phase, yes, load, signerFuncs, invoked, escalated>>

\* The factory of a raw key or a mnemonic resolves with its signer, which
\* getSigner stores.
FactoryResolves(i) ==
    /\ ops[i].pc = "factory"
    /\ signers' = signers \cup {ops[i].w}
    /\ Commit([ops EXCEPT ![i] = WithSigner(@)], alwaysAllow, objs)
    /\ UNCHANGED <<front, phase, yes, load, signerFuncs, invoked, escalated>>

\* getNetwork, populateTransaction and resolveProperties ended: the summary
\* is printed and consent asked for; or one of them failed.
Prepared(i) ==
    /\ ops[i].pc = "prepare"
    /\ Commit([ops EXCEPT ![i] = IsAllowed(@)], alwaysAllow, objs)
    /\ UNCHANGED <<front, phase, yes, load, signerFuncs, signers, invoked, escalated>>

PrepareFails(i) ==
    /\ ops[i].pc = "prepare"
    /\ ops' = [ops EXCEPT ![i] = Fail(@, "collaborator", "runtime")]
    /\ UNCHANGED <<front, phase, yes, load, signerFuncs, signers, alwaysAllow, objs, invoked, escalated>>

\* getChoice answers "y", "n" or "a".
Answer(i, allow) ==
    /\ ops[i].pc = "prompt"
    /\ LET op == ops[i]
           m == MessageOf(op.kind)
       IN  IF Records(allow)
           THEN Commit([ops EXCEPT ![i] = Delegate(op, allow)],
                       [alwaysAllow EXCEPT ![op.w] = op.allowed],
                       [objs EXCEPT ![op.allowed] = @ \cup {m}])
           ELSE IF Declines(allow)
           THEN Commit([ops EXCEPT ![i] =
                           Fail([op EXCEPT !.consent = allow], "declined", "Cancelled.")],
                       alwaysAllow, objs)
           ELSE Commit([ops EXCEPT ![i] = Delegate(op, allow)], alwaysAllow, objs)
    /\ escalated' = IF allow = "a"
                     THEN escalated \cup {<<ops[i].w, MessageOf(ops[i].kind)>>}
                     ELSE escalated
    /\ UNCHANGED <<front, phase, yes, load, signerFuncs, signers, invoked>>

\* getChoice fails: the catch clause of isAllowed.
PromptFails(i) ==
    /\ ops[i].pc = "prompt"
    /\ Commit([ops EXCEPT ![i] =
                  Fail([@ EXCEPT !.consent = "fail"], "promptFailed", "Cancelled.")],
              alwaysAllow, objs)
    /\ UNCHANGED <<front, phase, yes, load, signerFuncs, signers, invoked, escalated>>

\* The signer's signMessage, signTransaction or sendTransaction ends.
SignerDone(i) ==
    /\ ops[i].pc = "signing"
    /\ ops' = [ops EXCEPT ![i] = [@ EXCEPT !.pc = "done"]]
    /\ UNCHANGED <<front, phase, yes, load, signerFuncs, signers, alwaysAllow, objs, invoked, escalated>>

SignerFails(i) ==
    /\ ops[i].pc = "signing"
    /\ ops' = [ops EXCEPT ![i] = Fail(@, "collaborator", "runtime")]
    /\ UNCHANGED <<front, phase, yes, load, signerFuncs, signers, alwaysAllow, objs, invoked, escalated>>

\* The caller has the result or the error of the call: the call is over.
Return(i) ==
    /\ ops[i].pc \in {"done", "failed"}
    /\ ops' = [ops EXCEPT ![i] = IdleOp]
    /\ UNCHANGED <<front, phase, yes, load, signerFuncs, signers, alwaysAllow, objs, invoked, escalated>>

-----------------------------------------------------------------------------
(* CLI.run and Plugin.prepareOptions                                        *)

\* process.exit has not been called; also the `status` argument left out.
NoStatus == -1

\* The plugins added to the CLI, and what `new CLI(defaultCommand)` was given.
Plugins == {Word("send")}

DefaultCommands == {null, Word("send")}

IdleCli == [pc |-> "none", defaultCommand |-> null, command |-> null, debug |-> FALSE,
            status |-> NoStatus, cause |-> "none", rpc |-> 0,
            accountOptions |-> <<>>, accounts |-> <<>>, lookups |-> 0]

NoPlugin == [set |-> {}, yes |-> FALSE, provider |-> "none", accounts |-> <<>>]

\* forEach over flag names, each consumeFlag; a throw ends it.
RECURSIVE ConsumeFlags(_, _, _)
ConsumeFlags(a, c, names) ==
    IF names = <<>> THEN [consumed |-> c, error |-> "none", value |-> 0]
    ELSE LET flag == ConsumeFlag(a, c, Head(names))
         IN  IF flag.error # "none" THEN [flag EXCEPT !.value = 0]
             ELSE LET rest == ConsumeFlags(a, flag.consumed, Tail(names))
                  IN  [rest EXCEPT !.value = @ + (IF flag.value THEN 1 ELSE 0)]

\* forEach over option names, each consumeOption; a throw ends it.
RECURSIVE ConsumeEachOption(_, _, _)
ConsumeEachOption(a, c, names) ==
    IF names = <<>> THEN [consumed |-> c, error |-> "none", value |-> <<>>]
    ELSE LET option == ConsumeOption(a, c, Head(names))
         IN  IF option.error # "none" THEN [option EXCEPT !.value = <<>>]
             ELSE LET rest == ConsumeEachOption(a, option.consumed, Tail(names))
                  IN  [rest EXCEPT !.value = <<option.value>> \o @]

\* CLI.run, the block of the temporary parser: the command is the first token
\* the standard options leave unconsumed, and it is taken out of args.
DetectCommand(a, defaultCommand) ==
    LET flags == ConsumeFlags(a, ArgParser(a),
                     <<"debug", "help", "yes", "alchemy", "etherscan", "infura", "nodesmith">>)
        options == ConsumeEachOption(a, flags.consumed,
                     <<"network", "rpc", "account", "account-rpc", "account-void",
                       "gas-price", "gas-limit", "nonce", "data">>)
        commandIndex == CheckCommandIndex(a, options.consumed)
    IN  IF flags.error # "none" THEN [error |-> flags.error, command |-> null, args |-> a]
        ELSE IF options.error # "none"
        THEN [error |-> options.error, command |-> null, args |-> a]
        ELSE IF commandIndex = -1
        THEN [error |-> "none", command |-> defaultCommand, args |-> a]
        ELSE [error |-> "none", command |-> a[commandIndex + 1],
              args |-> SubSeq(a, 1, commandIndex) \o SubSeq(a, commandIndex + 2, Len(a))]

\* showUsage: process.exit(status || 0)
ShowUsage(status) == IF status = NoStatus \/ status = 0 THEN 0 ELSE status

\* The catch clause of CLI.run: a UsageError shows the usage with status 1,
\* any other error exits with 2.
Caught(frame, cause, usage) ==
    [frame EXCEPT !.pc = "exit", !.cause = cause,
                  !.status = IF usage THEN ShowUsage(1) ELSE 2]

\* The tests of loadAccount and of the --account-rpc case on the values of
\* the tokens used here: "key" is a raw private key, "0" is all digits, and
\* no token is a mnemonic, the name of a readable file, or an address.
CredentialOf(value) ==
    [dash |-> FALSE, hex |-> value = Word("key"), mnemonic |-> FALSE, file |-> "unreadable"]

IsRpcTarget(value) == value = Word("0")

\* prepareOptions up to the loop over the account options: the flag and the
\* options are consumed and the fields assigned in the order of the code; a
\* UsageError leaves the fields assigned before it.
PrepareOptionsHead(a, c, fields) ==
    LET yesFlag == ConsumeFlag(a, c, "yes")
        f1 == [fields EXCEPT !.set = @ \cup {"yes"}, !.yes = yesFlag.value]
        network == ConsumeOption(a, yesFlag.consumed, "network")
        rpc == ConsumeOptions(a, network.consumed, "rpc")
        hosted == ConsumeFlags(a, rpc.consumed,
                      <<"alchemy", "etherscan", "infura", "nodesmith">>)
        providers == Len(rpc.value) + hosted.value
        f2 == [f1 EXCEPT !.set = @ \cup {"provider"},
                         !.provider = IF providers = 1 THEN "single"
                                      ELSE IF providers > 0 THEN "fallback"
                                      ELSE "default"]
        accountOptions == ConsumeMultiOptions(a, hosted.consumed,
                              <<"account", "account-rpc", "account-void">>)
    IN  IF yesFlag.error # "none"
        THEN [error |-> yesFlag.error, consumed |-> yesFlag.consumed, plugin |-> fields,
              rpc |-> 0, accountOptions |-> <<>>]
        ELSE IF network.error # "none"
        THEN [error |-> network.error, consumed |-> network.consumed, plugin |-> f1,
              rpc |-> 0, accountOptions |-> <<>>]
        ELSE IF rpc.error # "none"
        THEN [error |-> rpc.error, consumed |-> rpc.consumed, plugin |-> f1,
              rpc |-> 0, accountOptions |-> <<>>]
        ELSE IF hosted.error # "none"
        THEN [error |-> hosted.error, consumed |-> hosted.consumed, plugin |-> f1,
              rpc |-> 0, accountOptions |-> <<>>]
        ELSE IF accountOptions.error # "none"
        THEN [error |-> accountOptions.error, consumed |-> accountOptions.consumed,
              plugin |-> f2, rpc |-> 0, accountOptions |-> <<>>]
        ELSE [error |-> "none", consumed |-> accountOptions.consumed, plugin |-> f2,
              rpc |-> Len(rpc.value), accountOptions |-> accountOptions.value]

\* The transaction options: each is consumed and, when given, assigned.
RECURSIVE ConsumeDefaults(_, _, _, _)
ConsumeDefaults(a, c, names, fields) ==
    IF names = <<>> THEN [error |-> "none", consumed |-> c, plugin |-> fields]
    ELSE LET option == ConsumeOption(a, c, Head(names))
         IN  IF option.error # "none"
             THEN [error |-> option.error, consumed |-> option.consumed, plugin |-> fields]
             ELSE ConsumeDefaults(a, option.consumed, Tail(names),
                      IF option.value = null THEN fields
                      ELSE [fields EXCEPT !.set = @ \cup {Head(names)}])

\* accounts.push(wrappedSigner)
PushAccountFirst(accounts, account) == <<account>> \o accounts

PushAccount(accounts, account) == Append(accounts, account)

\* CLI.run up to the first await: the command is detected, --help and
\* --debug are consumed from a new parser, the plugin is made, and
\* prepareOptions runs up to its loop over the account options.
CliRun ==
    /\ cli.pc = "start"
    /\ \E found \in {DetectCommand(args, cli.defaultCommand)} :
       \E help \in {ConsumeFlag(found.args, ArgParser(found.args), "help")} :
       \E debug \in {ConsumeFlag(found.args, help.consumed, "debug")} :
       \E head \in {PrepareOptionsHead(found.args, debug.consumed, plugin)} :
       LET frame == [cli EXCEPT !.command = found.command]
       IN  IF found.error # "none"
           THEN /\ cli' = [cli EXCEPT !.pc = "rejected", !.cause = "duplicate"]
                /\ UNCHANGED <<args, consumed, plugin>>
           ELSE IF help.error # "none" \/ (~help.value /\ debug.error # "none")
           THEN /\ cli' = [frame EXCEPT !.pc = "rejected", !.cause = "duplicate"]
                /\ args' = found.args
                /\ consumed' = IF help.error # "none" THEN help.consumed ELSE debug.consumed
                /\ UNCHANGED plugin
           ELSE IF help.value
           THEN /\ cli' = [frame EXCEPT !.pc = "exit", !.cause = "help",
                                        !.status = ShowUsage(NoStatus)]
                /\ args' = found.args
                /\ consumed' = help.consumed
                /\ UNCHANGED plugin
           ELSE IF found.command \notin Plugins
           THEN /\ cli' = IF found.command # null
                          THEN [frame EXCEPT !.pc = "exit", !.cause = "unknownCommand",
                                             !.debug = debug.value,
                                             !.status = ShowUsage(NoStatus)]
                          ELSE [frame EXCEPT !.pc = "exit", !.cause = "noCommand",
                                             !.debug = debug.value,
                                             !.status = ShowUsage(1)]
                /\ args' = found.args
                /\ consumed' = debug.consumed
                /\ UNCHANGED plugin
           ELSE /\ cli' = IF head.error # "none"
                          THEN Caught([frame EXCEPT !.debug = debug.value],
                                      "duplicateOption", TRUE)
                          ELSE [frame EXCEPT !.pc = "accounts", !.debug = debug.value,
                                             !.rpc = head.rpc,
                                             !.accountOptions = head.accountOptions]
                /\ args' = found.args
                /\ consumed' = head.consumed
                /\ plugin' = head.plugin
    /\ UNCHANGED <<ret, used, back>>

\* One turn of the loop over the account options: loadAccount for --account,
\* the signer of the one JSON-RPC provider for --account-rpc, a VoidSigner
\* for --account-void.
AccountOption ==
    /\ cli.pc = "accounts"
    /\ cli.accountOptions # <<>>
    /\ LET account == Head(cli.accountOptions)
           loaded == LoadAccountBody(CredentialOf(account.value))
           pushed == [cli EXCEPT !.accountOptions = Tail(@),
                                 !.accounts = PushAccount(@, account)]
       IN  cli' = CASE account.name = "account" ->
                          IF loaded.pc = "resolved" THEN pushed
                          ELSE Caught(cli, "unknownAccount", loaded.cause = "unknown")
                    [] account.name = "account-rpc" ->
                          IF cli.rpc # 1 THEN Caught(cli, "rpcRequired", TRUE)
                          ELSE IF IsRpcTarget(account.value) THEN pushed
                          ELSE Caught(cli, "invalidRpc", TRUE)
                    [] OTHER -> [pushed EXCEPT !.lookups = @ + 1]
    /\ UNCHANGED <<args, consumed, ret, used, plugin, back>>

\* A provider.resolveName started for an --account-void ends.  The loop
\* does not await it: it ends at any later time of the run.
NameResolved ==
    /\ cli.pc \in {"accounts", "network", "run"}
    /\ cli.lookups > 0
    /\ cli' = [cli EXCEPT !.lookups = @ - 1]
    /\ UNCHANGED <<args, consumed, ret, used, plugin, back>>

\* After the loop: this.accounts is assigned, the transaction options are
\* consumed, and prepareOptions awaits the network of the provider.
TransactionOptions ==
    /\ cli.pc = "accounts"
    /\ cli.accountOptions = <<>>
    /\ LET defaults == ConsumeDefaults(args, consumed,
                           <<"gas-price", "gas-limit", "nonce", "value", "data">>,
                           [plugin EXCEPT !.set = @ \cup {"accounts"},
                                          !.accounts = cli.accounts])
       IN  /\ consumed' = defaults.consumed
           /\ plugin' = defaults.plugin
           /\ cli' = IF defaults.error # "none" THEN Caught(cli, "duplicateOption", TRUE)
                     ELSE [cli EXCEPT !.pc = "network"]
    /\ UNCHANGED <<args, ret, used, back>>

\* getNetwork ended, either way this.network is assigned; prepareOptions
\* returns, CLI.run finalizes the arguments and calls prepareArgs and run.
NetworkIdentified ==
    /\ cli.pc = "network"
    /\ plugin' = [plugin EXCEPT !.set = @ \cup {"network"}]
    /\ cli' = IF FinalizeArgs(args, consumed).error # "none"
              THEN Caught(cli, "unexpectedOption", TRUE)
              ELSE [cli EXCEPT !.pc = "run"]
    /\ UNCHANGED <<args, consumed, ret, used, back>>

\* plugin.run ends: it returns, or it throws a UsageError or another error.
PluginRun(outcome) ==
    /\ cli.pc = "run"
    /\ cli' = CASE outcome = "returns" -> [cli EXCEPT !.pc = "returned", !.cause = "success"]
                [] outcome = "usage" -> Caught(cli, "pluginUsage", TRUE)
                [] OTHER -> Caught(cli, "runtime", FALSE)
    /\ UNCHANGED <<args, consumed, ret, used, plugin, back>>

-----------------------------------------------------------------------------
(* The ArgParser on its own: a parser made from any token list, on which    *)
(* its methods are called in any order.                                     *)

\* The names the calls ask for and the tokens of the lists.
FlagNames == {"a", "b"}

OptionNames == {"a"}

NameLists == {<<"b">>, <<"a", "b">>}

Tokens == {Separator, Option("a"), Option("b"), Word("1"), Word("pos")}

RECURSIVE TokenLists(_)
TokenLists(n) ==
    IF n = 0 THEN {<<>>}
    ELSE LET shorter == TokenLists(n - 1)
         IN  shorter \cup {Append(l, t) : l \in {x \in shorter : Len(x) = n - 1}, t \in Tokens}

NoCall == [op |-> "none", names |-> <<>>, error |-> "none", value |-> <<>>,
           repeated |-> FALSE, before |-> <<>>]

NoUse == [names |-> {}, distinct |-> TRUE, once |-> {}, twice |-> {}]

\* A call asked for `names` and its result, if it returned one, was made of
\* the tokens at `hits`: `used` keeps the names asked so far, whether the
\* calls had pairwise different names, the tokens the results were made of
\* (once), and those of them that a later call matched again as its flag or
\* as the name of its option (twice).  It is kept while the names are
\* different.
Uses(names, hits) ==
    LET matched == {i \in hits : Cardinality({j \in hits : j < i}) % 2 = 0}
    IN  IF used.distinct /\ names \cap used.names = {}
        THEN [names |-> used.names \cup names, distinct |-> TRUE,
              once |-> used.once \cup hits,
              twice |-> used.twice \cup (used.once \cap matched)]
        ELSE [NoUse EXCEPT !.distinct = FALSE]

\* The tokens of the list a call marks consumed.
Marked(out) == {i \in 1..Len(args) : out.consumed[i]}

\* A call returned or threw: `ret` is the call and its outcome, and, when the
\* call before it was the same call, `before` is what that one returned.
Returned(op, names, out) ==
    LET same == ret.op = op /\ ret.names = names /\ ret.error = "none"
    IN  ret' = [op |-> op, names |-> names, error |-> out.error, value |-> out.value,
                repeated |-> same, before |-> IF same THEN <<ret.value>> ELSE <<>>]

CallConsumeFlag(name) ==
    /\ cli.pc = "parser"
    /\ \E out \in {ConsumeFlag(args, consumed, name)} :
           /\ consumed' = out.consumed
           /\ Returned("consumeFlag", <<name>>, out)
           /\ used' = Uses({name}, IF out.error = "none" /\ out.value
                                    THEN Marked(ConsumeFlag(args, ArgParser(args), name))
                                    ELSE {})
    /\ UNCHANGED <<args, cli, plugin, back>>

CallConsumeMultiOptions(names) ==
    /\ cli.pc = "parser"
    /\ \E out \in {ConsumeMultiOptions(args, consumed, names)} :
           /\ consumed' = out.consumed
           /\ Returned("consumeMultiOptions", names, out)
           /\ used' = Uses({names[k] : k \in 1..Len(names)},
                           IF out.error = "none"
                           THEN Marked(ConsumeMultiOptions(args, ArgParser(args), names))
                           ELSE {})
    /\ UNCHANGED <<args, cli, plugin, back>>

CallConsumeOptions(name) ==
    /\ cli.pc = "parser"
    /\ \E out \in {ConsumeOptions(args, consumed, name)} :
           /\ consumed' = out.consumed
           /\ Returned("consumeOptions", <<name>>, out)
           /\ used' = Uses({name}, IF out.error = "none"
                                    THEN Marked(ConsumeOptions(args, ArgParser(args), name))
                                    ELSE {})
    /\ UNCHANGED <<args, cli, plugin, back>>

CallConsumeOption(name) ==
    /\ cli.pc = "parser"
    /\ \E out \in {ConsumeOption(args, consumed, name)} :
           /\ consumed' = out.consumed
           /\ Returned("consumeOption", <<name>>, out)
           /\ used' = Uses({name}, IF out.error = "none"
                                    THEN Marked(ConsumeOptions(args, ArgParser(args), name))
                                    ELSE {})
    /\ UNCHANGED <<args, cli, plugin, back>>

CallFinalizeArgs ==
    /\ cli.pc = "parser"
    /\ Returned("finalizeArgs", <<>>, FinalizeArgs(args, consumed))
    /\ UNCHANGED <<args, consumed, used, cli, plugin, back>>

CallCheckCommandIndex ==
    /\ cli.pc = "parser"
    /\ Returned("checkCommandIndex", <<>>,
                [error |-> "none", value |-> CheckCommandIndex(args, consumed)])
    /\ UNCHANGED <<args, consumed, used, cli, plugin, back>>

-----------------------------------------------------------------------------
\* No wrapped signer yet: the state of the three WeakMaps and of
\* prepareOptions before the first --account.
InitSigners ==
    /\ phase = "options"
    /\ yes \in BOOLEAN
    /\ load = IdleLoad
    /\ signerFuncs = <<>>
    /\ signers = {}
    /\ alwaysAllow = [w \in Wrappers |-> 0]
    /\ objs = [o \in ObjIds |-> {}]
    /\ ops = [i \in OpIds |-> IdleOp]
    /\ invoked = {}
    /\ escalated = {}

\* The signers and their consent taken alone: the command line is left out,
\* the options phase loads any credentials.
Init ==
    /\ InitSigners
    /\ args = <<>>
    /\ consumed = <<>>
    /\ ret = NoCall
    /\ used = NoUse
    /\ cli = IdleCli
    /\ plugin = NoPlugin

Options ==
    \/ \E arg \in Credentials : LoadAccountCall(arg)
    \/ \E content \in Credentials : LoadPromptAnswer(content)
    \/ LoadPromptCancel
    \/ AccountsPush
    \/ PrepareOptionsDone

Step(i) ==
    \/ \E entry \in {"right", "wrong"} : PasswordAnswer(i, entry)
    \/ PasswordCancel(i)
    \/ Decrypt(i)
    \/ FactoryResolves(i)
    \/ Prepared(i)
    \/ PrepareFails(i)
    \/ \E allow \in {"y", "n", "a"} : Answer(i, allow)
    \/ PromptFails(i)
    \/ SignerDone(i)
    \/ SignerFails(i)
    \/ Return(i)

\* The command awaits each call and takes its result before it makes the
\* next one.
StartAwaited(i, w, kind) ==
    /\ \A j \in OpIds : ops[j].pc = "idle"
    /\ Start(i, w, kind)

Next ==
    \/ Options
    \/ \E i \in OpIds, w \in Wrappers, kind \in OpKinds : StartAwaited(i, w, kind)
    \/ \E i \in OpIds : Step(i)

Spec == Init /\ [][Next]_vars

\* The command makes its calls without awaiting them: up to MaxOps calls are
\* in flight together, their continuations interleaved at the awaits.
NextConcurrent ==
    \/ Options
    \/ \E i \in OpIds, w \in Wrappers, kind \in OpKinds : Start(i, w, kind)
    \/ \E i \in OpIds : Step(i)

SpecConcurrent == Init /\ [][NextConcurrent]_vars

\* The ArgParser alone.
InitParser ==
    /\ InitSigners /\ ~yes
    /\ args \in TokenLists(MaxArgs)
    /\ consumed = ArgParser(args)
    /\ ret = NoCall
    /\ used = NoUse
    /\ cli = [IdleCli EXCEPT !.pc = "parser"]
    /\ plugin = NoPlugin

NextParser ==
    \/ \E name \in FlagNames : CallConsumeFlag(name)
    \/ \E names \in NameLists : CallConsumeMultiOptions(names)
    \/ \E name \in OptionNames : CallConsumeOptions(name)
    \/ \E name \in OptionNames : CallConsumeOption(name)
    \/ CallFinalizeArgs
    \/ CallCheckCommandIndex

SpecParser == InitParser /\ [][NextParser]_vars

\* One invocation of the tool: CLI.run on any command line.
CliTokens ==
    {Option("help"), Option("yes"), Option("rpc"), Option("account"),
     Option("account-rpc"), Option("account-void"), Option("value"),
     Word("send"), Word("key"), Word("0")}

RECURSIVE CommandLines(_)
CommandLines(n) ==
    IF n = 0 THEN {<<>>}
    ELSE LET shorter == CommandLines(n - 1)
         IN  shorter \cup
             {Append(l, t) : l \in {x \in shorter : Len(x) = n - 1}, t \in CliTokens}

InitCli ==
    /\ InitSigners /\ ~yes
    /\ args \in CommandLines(MaxArgs)
    /\ consumed = ArgParser(args)
    /\ ret = NoCall
    /\ used = NoUse
    /\ \E defaultCommand \in DefaultCommands :
          cli = [IdleCli EXCEPT !.pc = "start", !.defaultCommand = defaultCommand]
    /\ plugin = NoPlugin

NextCli ==
    \/ CliRun
    \/ AccountOption
    \/ NameResolved
    \/ TransactionOptions
    \/ NetworkIdentified
    \/ \E outcome \in {"returns", "usage", "runtime"} : PluginRun(outcome)

SpecCli == InitCli /\ [][NextCli]_vars

-----------------------------------------------------------------------------
(* The claims                                                               *)

\* The messages alwaysAllow holds for a wrapper.
Memory(w) == IF alwaysAllow[w] = 0 THEN {} ELSE objs[alwaysAllow[w]]

Granted == {"auto", "always", "y", "a"}

\* C1: a call whose consent prompt was answered "n" has not invoked the
\* factory of its identity.
C1_DeclinedNeverInvokesFactory ==
    \A i \in OpIds : ops[i].cause = "declined" => ops[i].factory = "no"

\* C2: the signer's signMessage, signTransaction or sendTransaction has been
\* called only in a call whose consent was granted before: by --yes, by a
\* remembered "a", or by the answer "y" or "a"; never after "n" or after a
\* prompt that failed.
C2_SignOnlyAfterConsent ==
    \A i \in OpIds :
        /\ ops[i].signed => ops[i].consent \in Granted
        /\ ops[i].consent = "auto" => yes
        /\ ops[i].consent \in {"n", "fail"} =>
              ops[i].pc = "failed" /\ ops[i].error = "Cancelled."

C2_Witness ==
    \E i \in OpIds : ops[i].pc = "done" /\ ops[i].signed /\ ops[i].consent = "y"

\* C3: no two calls on the same wrapper have each an invocation of its
\* factory in flight.
C3_OneFactoryInFlight ==
    \A i, j \in OpIds :
        (/\ i # j
         /\ ops[i].pc \in {"factory", "password", "decrypt"}
         /\ ops[j].pc \in {"factory", "password", "decrypt"})
        => ops[i].w # ops[j].w

\* C4: with each call run to its end before the next starts, no call invokes
\* a factory that was invoked before, whatever the earlier calls ended with.
C4_FactoryAtMostOnce ==
    \A i \in OpIds : ops[i].factory # "again"

\* C5: a gated call started after its message was answered "a" on its
\* wrapper, with --yes off, is never at the consent prompt.
C5_AlwaysSkipsPrompt ==
    \A i \in OpIds : ops[i].later /\ ~yes => "consent" \notin ops[i].asked

C7_AutoConfirmNeverPrompts ==
    yes =>
        \A i \in OpIds :
            /\ "consent" \notin ops[i].asked
            /\ ops[i].pc # "prompt"
            /\ ops[i].signed => ops[i].consent = "auto"
            /\ (ops[i].pc # "idle" /\ signerFuncs[ops[i].w] = "key") => ops[i].asked = {}

C7_Witness ==
    /\ yes
    /\ \E i \in OpIds :
          /\ ops[i].pc = "done" /\ ops[i].kind = "signMessage" /\ ops[i].signed
          /\ signerFuncs[ops[i].w] = "key" /\ ops[i].asked = {}

\* C8: every cancellation (the answer "n", a consent prompt that fails, a
\* cancelled password prompt in loadAccount or in the factory) ends its
\* operation with the message "Cancelled.".
C8_CancelledMessage ==
    /\ \A i \in OpIds :
          ops[i].cause \in {"declined", "promptFailed", "passwordCancelled"} =>
              ops[i].error = "Cancelled."
    /\ load.cause = "passwordCancelled" => load.error = "Cancelled."

\* C9: a call that fails on a wrong decryption password fails with
\* "Incorrect password.".
C9_IncorrectPassword ==
    \A i \in OpIds : ops[i].cause = "wrongPassword" => ops[i].error = "Incorrect password."

\* C10: loadAccount takes the first branch that matches, in the order "-",
\* raw key, mnemonic, JSON wallet: a credential that is a raw key resolves as
\* one, whether or not it is a mnemonic too, and the file is read only for a
\* credential that is none of "-", raw key and mnemonic.
C10_ClassificationOrder ==
    load.pc # "idle" =>
        /\ load.arg.dash => load.pc \in {"prompt", "failed"} /\ load.branch = "none"
        /\ load.arg.hex => load.pc = "resolved" /\ load.branch = "key"
        /\ load.branch = "mnemonic" => load.arg.mnemonic /\ ~load.arg.hex
        /\ load.arg.mnemonic /\ ~load.arg.hex =>
              load.pc = "resolved" /\ load.branch = "mnemonic"
        /\ load.branch = "json" =>
              load.arg.file = "wallet" /\ ~load.arg.hex /\ ~load.arg.mnemonic
        /\ load.fileRead <=> ~load.arg.dash /\ ~load.arg.hex /\ ~load.arg.mnemonic

C10_Witness ==
    /\ load.pc = "resolved" /\ load.branch = "key"
    /\ load.arg.hex /\ load.arg.mnemonic /\ load.arg.file = "wallet"
    /\ ~load.fileRead

\* C11: a credential that is none of "-", raw key, mnemonic and JSON wallet
\* (its file unreadable, or read and not a wallet) makes loadAccount fail
\* with the usage error, and the message of that error is the one every
\* other unclassifiable credential gives.
C11_UnknownAccountUniform ==
    /\ (/\ load.pc # "idle"
        /\ ~load.arg.dash /\ ~load.arg.hex /\ ~load.arg.mnemonic
        /\ load.arg.file # "wallet")
       => load.pc = "failed" /\ load.cause = "unknown"
    /\ load.cause = "unknown" =>
          \A other \in Credentials :
              Classify(other).cause = "unknown" => Classify(other).error = load.error

C11_Witness ==
    /\ load.pc = "failed" /\ load.cause = "unknown"
    /\ load.arg.file = "other" /\ load.fileRead

-----------------------------------------------------------------------------
\* The tokens of a list at the positions of S, in the order of the list.
RECURSIVE Pick(_, _)
Pick(a, S) ==
    IF S = {} THEN <<>>
    ELSE LET m == CHOOSE i \in S : \A j \in S : i <= j
         IN  <<a[m]>> \o Pick(a, S \ {m})

\* The positions before the first separator of the list.
BeforeSeparator(a) == {i \in 1..Len(a) : \A k \in 1..i : a[k] # Separator}

\* The positions of the option tokens of the names asked for.
Matching(a, names) ==
    {i \in BeforeSeparator(a) : \E k \in 1..Len(names) : a[i] = <<"--", names[k]>>}

\* C12: a consumeFlag(name) that follows a consumeFlag(name) which returned
\* true returns false.
C12_FlagConsumedOnce ==
    (ret.op = "consumeFlag" /\ ret.repeated /\ ret.before = <<TRUE>>) =>
        ret.error = "none" /\ ret.value = FALSE

\* C13: consumeMultiOptions, consumeOptions and consumeOption throw when the
\* last token is an option asked for (and not the value of the option before
\* it), and none of them returns a value that is missing.
C13_MissingValueFails ==
    ret.op \in {"consumeMultiOptions", "consumeOptions", "consumeOption"} =>
        /\ (/\ Len(args) \in Matching(args, ret.names)
            /\ Len(args) - 1 \notin Matching(args, ret.names))
           => ret.error # "none"
        /\ ret.error = "none" =>
              CASE ret.op = "consumeMultiOptions" ->
                       \A k \in 1..Len(ret.value) : ret.value[k].value # undefined
                [] ret.op = "consumeOptions" ->
                       \A k \in 1..Len(ret.value) : ret.value[k] # undefined
                [] OTHER -> ret.value # undefined

C15_FinalizeArgs ==
    ret.op = "finalizeArgs" =>
        LET U == {i \in 1..Len(args) : ~consumed[i]}
            seps == {i \in U : args[i] = <<"--">>}
            stop == IF seps = {} THEN Len(args) + 1
                    ELSE CHOOSE i \in seps : \A j \in seps : i <= j
            kept == {i \in U : i < stop}
            bad == {i \in kept : args[i][1] = "--"}
        IN  /\ ret.error = "unexpected option" <=> bad # {}
            /\ ret.error \in {"none", "unexpected option"}
            /\ bad = {} =>
                  ret.value = Pick(args, kept) \o Pick(args, (stop + 1)..Len(args))

C15_Witness ==
    /\ args = <<Word("pos"), Separator, Option("a"), Word("1")>>
    /\ consumed = <<FALSE, FALSE, FALSE, FALSE>>
    /\ ret.op = "finalizeArgs" /\ ret.error = "none"
    /\ ret.value = <<Word("pos"), Option("a"), Word("1")>>

-----------------------------------------------------------------------------
\* The causes that are usage errors, and those raised inside prepareOptions.
UsageCauses ==
    {"unknownCommand", "noCommand", "duplicate", "duplicateOption", "rpcRequired",
     "invalidRpc", "unknownAccount", "unexpectedOption", "pluginUsage"}

OptionsCauses == {"duplicateOption", "rpcRequired", "invalidRpc", "unknownAccount"}

\* C16: CLI.run ends with status 0 after --help and after a run that
\* succeeded, with status 1 after every usage error, with status 2 after any
\* other failure.
C16_ExitStatus ==
    cli.pc \in {"exit", "rejected", "returned"} =>
        /\ cli.cause = "help" => cli.pc = "exit" /\ cli.status = 0
        /\ cli.cause = "success" => cli.pc = "returned" /\ cli.status \in {NoStatus, 0}
        /\ cli.cause \in UsageCauses => cli.pc = "exit" /\ cli.status = 1
        /\ cli.cause = "runtime" => cli.pc = "exit" /\ cli.status = 2

\* C17: when prepareOptions has succeeded on a command line in which every
\* account option is followed by a value, plugin.accounts holds one entry
\* for each --account, --account-rpc and --account-void, in the order of
\* their positions.
C17_AccountsInOrder ==
    "network" \in plugin.set =>
        LET P == Matching(args, <<"account", "account-rpc", "account-void">>)
            V == {p + 1 : p \in P}
        IN  (\A p \in P : p < Len(args) /\ args[p + 1][1] # "--") =>
                /\ "accounts" \in plugin.set
                /\ Len(plugin.accounts) = Cardinality(P)
                /\ Pick(args, P) = [k \in 1..Len(plugin.accounts) |->
                                       <<"--", plugin.accounts[k].name>>]
                /\ Pick(args, V) = [k \in 1..Len(plugin.accounts) |->
                                       plugin.accounts[k].value]

C17_Witness ==
    /\ "network" \in plugin.set
    /\ args = <<Option("account-void"), Word("0"), Option("account"), Word("key")>>
    /\ plugin.accounts = <<[name |-> "account-void", value |-> Word("0")],
                           [name |-> "account", value |-> Word("key")]>>

\* C18: when prepareOptions has thrown a UsageError, no field of the plugin
\* has been assigned.
C18_NoPartialConfiguration ==
    (cli.pc = "exit" /\ cli.cause \in OptionsCauses) => plugin.set = {}

-----------------------------------------------------------------------------
\* C19: a message answered "a" on a wrapper is held by alwaysAllow for that
\* wrapper in every later state, whatever calls are in flight.
C19_AlwaysPersists ==
    \A w \in Wrappers, m \in Messages : <<w, m>> \in escalated => m \in Memory(w)

\* C20: what alwaysAllow holds for a wrapper changes only in the step in
\* which a consent prompt of a call on that wrapper is answered "a", and the
\* change is the addition of the message of that call.
C20_MemoryFrame ==
    [][\A w \in Wrappers :
          Memory(w)' # Memory(w) =>
              \E i \in OpIds :
                  /\ ops[i].pc = "prompt" /\ ops[i].w = w
                  /\ ~yes
                  /\ ops'[i].consent = "a"
                  /\ Memory(w)' = Memory(w) \cup {MessageOf(ops[i].kind)}]_vars

-----------------------------------------------------------------------------
\* C21: after any calls on an ArgParser, failed ones included, _consumed is
\* as long as _args.
C21_SameLength == cli.pc = "parser" => Len(consumed) = Len(args)

\* C22: while the consumeFlag and consumeMultiOptions calls on an ArgParser
\* have pairwise different names, no token that was part of a returned
\* result (as flag, option name or option value) is matched again as the
\* flag or the option name of a later result.
C22_TokenUsedOnce == used.distinct => used.twice = {}

-----------------------------------------------------------------------------
\* C23: prepareOptions takes up an account option only when the resolution
\* started for every option before it has ended: no name lookup is pending.
C23_AccountsOneByOne ==
    [][(/\ cli.pc = "accounts"
        /\ cli.accountOptions # <<>>
        /\ cli'.accountOptions # cli.accountOptions \/ cli'.pc = "exit")
       => cli.lookups = 0]_vars

-----------------------------------------------------------------------------
\* The global options: the flags, the options that may be repeated and those
\* that may not.
GlobalFlags == {"debug", "help", "yes", "alchemy", "etherscan", "infura", "nodesmith"}

RepeatableOptions == {"rpc", "account", "account-rpc", "account-void"}

SingleOptions == {"network", "gas-price", "gas-limit", "nonce", "value", "data"}

\* A command line read from position i on: flags, options each followed by
\* a value that is a word, and words that are no value, up to the separator.
\* `at` are the positions of these words.
RECURSIVE Words(_, _)
Words(a, i) ==
    IF i > Len(a) \/ a[i] = <<"--">> THEN [ok |-> TRUE, at |-> {}]
    ELSE IF a[i][1] # "--"
    THEN [Words(a, i + 1) EXCEPT !.at = @ \cup {i}]
    ELSE IF a[i][2] \in GlobalFlags THEN Words(a, i + 1)
    ELSE IF a[i][2] \in RepeatableOptions \cup SingleOptions
    THEN IF i < Len(a) /\ a[i + 1][1] # "--" THEN Words(a, i + 2)
         ELSE [ok |-> FALSE, at |-> {}]
    ELSE [ok |-> FALSE, at |-> {}]

\* The command lines of claim C24: global options and one command name.
OneCommand(a) ==
    /\ Words(a, 1).ok
    /\ Cardinality(Words(a, 1).at) = 1
    /\ \A n \in GlobalFlags \cup SingleOptions :
          Cardinality({i \in BeforeSeparator(a) : a[i] = <<"--", n>>}) <= 1

\* C24: on a command line of global options and one command name, CLI.run
\* selects that name as the command and takes that token, and no other, out
\* of the arguments of the plugin's ArgParser.
C24_CommandAnywhere ==
    [][(cli.pc = "start" /\ OneCommand(args)) =>
          LET p == CHOOSE i \in Words(args, 1).at : TRUE
          IN  /\ cli'.pc # "rejected"
              /\ cli'.command = args[p]
              /\ args' = SubSeq(args, 1, p - 1) \o SubSeq(args, p + 1, Len(args))]_vars

====
